---- MODULE Spec2Model ----
(***************************************************************************)
(* Model of PyPi/algorithms/td.py: the temporal-difference agents          *)
(* QLearning, SARSA, DoubleQLearning and WeightedQLearning.                 *)
(*                                                                         *)
(* One behaviour follows one agent: Init picks the algorithm and its       *)
(* configuration, every step is one call of the agent's fit method.        *)
(* Values are exact rationals [num, den] (den > 0, lowest terms).          *)
(* WeightedQLearning keeps _sigma as a square root; the model stores the   *)
(* radicand, sigma = sqrt(sq) * 10^e10, so that the initial 1e10 and the   *)
(* computed sqrt(diff / n) are both exact.                                 *)
(*                                                                         *)
(* The approximator, the learning-rate schedule, the policy, max_QA and    *)
(* parse_dataset live outside td.py; they are modelled by their            *)
(* interfaces: a table of values, a call counter, a free choice of action. *)
(* An array subscript (self._n_updates[sa], self._sigma[sa_n, a], ...) is  *)
(* modelled as the entry of the key (state, action); the shapes of the     *)
(* arrays come from those collaborators.                                   *)
(***************************************************************************)
EXTENDS Integers, Sequences, FiniteSets

(* ------------------------------ bounds --------------------------------- *)
\* fit calls followed in one behaviour
MaxCalls == 3
\* rows of the sample matrix (the 'precision' parameter, 1000. by default)
Precision == 2

States  == {0}
Actions == {0, 1}
Rewards == {0, 1}
\* values passed as n_fit_iterations
FitIterations == {0, 1, 2}
\* values a normal sample takes when its standard deviation is positive
NoiseVals == {-9, 9}
\* initial value of every entry of the approximator's table
InitialQs == {0, 1}

Keys == States \X Actions

(* ---------------------------- rationals -------------------------------- *)
Abs(i) == IF i < 0 THEN -i ELSE i

RECURSIVE GCD(_, _)
GCD(a, b) == IF b = 0 THEN a ELSE GCD(b, a % b)

Rat(n, d) ==
    LET g == GCD(Abs(n), d)
    IN  IF n = 0 THEN [num |-> 0, den |-> 1]
                 ELSE [num |-> n \div g, den |-> d \div g]

RInt(i) == [num |-> i, den |-> 1]

RAdd(x, y) ==
    LET g == GCD(x.den, y.den)
    IN  Rat(x.num * (y.den \div g) + y.num * (x.den \div g),
            (x.den \div g) * y.den)

RNeg(x) == [num |-> -x.num, den |-> x.den]

RSub(x, y) == RAdd(x, RNeg(y))

RMul(x, y) ==
    LET g1 == GCD(Abs(x.num), y.den)
        g2 == GCD(Abs(y.num), x.den)
    IN  IF x.num = 0 \/ y.num = 0 THEN RInt(0)
        ELSE Rat((x.num \div g1) * (y.num \div g2),
                 (x.den \div g2) * (y.den \div g1))

RSq(x) == RMul(x, x)

\* 1 / x for x # 0
RInv(x) == IF x.num < 0 THEN [num |-> -x.den, den |-> -x.num]
                        ELSE [num |-> x.den, den |-> x.num]

RDiv(x, y) == RMul(x, RInv(y))

RECURSIVE RSum(_)
RSum(seq) == IF seq = <<>> THEN RInt(0) ELSE RAdd(Head(seq), RSum(Tail(seq)))

RLess(x, y) == x.num * y.den < y.num * x.den

RLeq(x, y) == x.num * y.den <= y.num * x.den

Zero == RInt(0)
One  == RInt(1)
Half == Rat(1, 2)

\* discount factors of the MDP (gamma in [0, 1])
Gammas == {Zero, One}

(* ------------------------------ state ---------------------------------- *)
VARIABLES
    alg,          \* class of the agent
    sampling,     \* WeightedQLearning.sampling
    gamma,        \* mdp_info['gamma']
    Q,            \* approximator: model index -> key -> value
    learning_rate,\* schedule index -> key -> number of times invoked
    next_action,  \* SARSA._next_action: <<>> until drawn, then <<a>>
    n_updates,    \* WeightedQLearning._n_updates
    sigma,        \* WeightedQLearning._sigma
    Q2,           \* WeightedQLearning._Q2
    weights_var,  \* WeightedQLearning._weights_var
    calls,        \* fit calls made so far
    coin,         \* model index -> coin draws that selected it
    fits,         \* model index -> approximator fit calls it received
    touched,      \* key -> completed fit calls whose last transition has it
    last          \* what the most recent fit call did

vars == <<alg, sampling, gamma, Q, learning_rate, next_action, n_updates,
          sigma, Q2, weights_var, calls, coin, fits, touched, last>>

Algorithms == {"QLearning", "SARSA", "DoubleQLearning", "WeightedQLearning"}

\* DoubleQLearning asserts an ensemble of exactly two models and keeps two
\* schedules; the other agents have one approximator and one schedule.
Models(a) == IF a = "DoubleQLearning" THEN {0, 1} ELSE {0}

\* np.ones(shape) * 1e10
SigmaInitExp == 10
SigmaInit == [e10 |-> SigmaInitExp, sq |-> One]

SigmaIsZero(s) == s.sq.num = 0

Transitions ==
    [state : States, action : Actions, reward : Rewards,
     next_state : States, absorbing : BOOLEAN]

\* an earlier transition of a dataset, never the last one
Earlier == [state |-> 0, action |-> 1, reward |-> 1,
            next_state |-> 0, absorbing |-> FALSE]

\* the datasets passed to fit: an earlier transition, then the last one
Datasets == {<<Earlier, t>> : t \in Transitions}

NoCall == [n_fit |-> 1, t |-> Earlier, idx |-> 0, a_n |-> 0,
           q_current |-> Zero, q_next |-> Zero, alpha |-> Zero,
           target |-> Zero, q |-> Zero, err |-> "none", trace |-> <<>>,
           max_idx |-> <<>>]

Init ==
    /\ alg \in Algorithms
    /\ sampling \in (IF alg = "WeightedQLearning" THEN BOOLEAN ELSE {TRUE})
    /\ gamma \in Gammas
    /\ \E q0 \in InitialQs : Q = [i \in Models(alg) |-> [k \in Keys |-> RInt(q0)]]
    /\ learning_rate = [i \in Models(alg) |-> [k \in Keys |-> 0]]
    /\ next_action = <<>>
    /\ n_updates = [k \in Keys |-> 0]
    /\ sigma = [k \in Keys |-> SigmaInit]
    /\ Q2 = [k \in Keys |-> Zero]
    /\ weights_var = [k \in Keys |-> Zero]
    /\ calls = 0
    /\ coin = [i \in Models(alg) |-> 0]
    /\ fits = [i \in Models(alg) |-> 0]
    /\ touched = [k \in Keys |-> 0]
    /\ last = NoCall

(* ------------------------ external collaborators ----------------------- *)
\* approximator.predict(sa) of a tabular approximator
Predict(table, sa) == table[sa]

\* approximator.fit(sa, q): later predictions at sa return q
ApproxFit(table, sa, q) == [table EXCEPT ![sa] = q]

\* self.learning_rate(sa): the value returned. The schedule of the model
\* keeps the step size at 1/2; its counter for sa advances with every call.
LearningRate(schedule, sa) == Half

\* self.learning_rate(sa): the schedule's counter for sa advances
Advance(schedule, sa) == [schedule EXCEPT ![sa] = @ + 1]

\* max_QA(next_state, False, approximator, actions): the maximal value
MaxQ(table, ns) ==
    LET a == CHOOSE x \in Actions :
                 \A y \in Actions : RLeq(table[<<ns, y>>], table[<<ns, x>>])
    IN  table[<<ns, a>>]

\* the actions max_QA may return with it
MaxActions(table, ns) ==
    {x \in Actions : \A y \in Actions : RLeq(table[<<ns, y>>], table[<<ns, x>>])}

(* ------------------------------ TD.fit --------------------------------- *)
\* mutant: the assertion lets every positive count through
FitPreconditionAtLeast(n) == n >= 1

\* assert n_fit_iterations == 1
FitPrecondition(n) == n = 1

\* parse_dataset([dataset[-1]])
LastTransition(dataset) == dataset[Len(dataset)]

\* q_next = self._next_q(next_state) if not absorbing else 0.
\* nq is the outcome of the resolver: [err, val, ev, a_n, max_idx]
Resolved(val, ev, a, mi) ==
    [err |-> "none", val |-> val, ev |-> ev, a_n |-> a, max_idx |-> mi]

Raised(e, ev, mi) ==
    [err |-> e, val |-> Zero, ev |-> ev, a_n |-> 0, max_idx |-> mi]

\* mutant: the resolver is called for absorbing transitions too
BootstrapAlways(absorbing, nq) == nq

Bootstrap(absorbing, nq) ==
    IF absorbing THEN Resolved(Zero, <<>>, 0, <<>>) ELSE nq

\* reward + gamma * q_next
Target(reward, g, q_next) == RAdd(RInt(reward), RMul(g, q_next))

\* q_current + alpha * (target - q_current)
TDUpdate(q_current, alpha, target) ==
    RAdd(q_current, RMul(alpha, RSub(target, q_current)))

\* the call raised: nothing after the raising statement is executed
Abort(n, t, e, ev) ==
    /\ last' = [NoCall EXCEPT !.n_fit = n, !.t = t, !.err = e, !.trace = ev]
    /\ calls' = calls + 1

\* QLearning._next_q
QLearningNextQ(table, ns) ==
    Resolved(MaxQ(table, ns), <<"next_q", "max_QA">>, 0, <<>>)

\* mutant: the greedy value instead of the drawn action's
SARSANextQGreedy(table, ns, a) ==
    Resolved(MaxQ(table, ns), <<"next_q", "draw_action", "predict">>, a, <<>>)

\* SARSA._next_q; a is the action draw_action returns
SARSANextQ(table, ns, a) ==
    Resolved(Predict(table, <<ns, a>>),
             <<"next_q", "draw_action", "predict">>, a, <<>>)

\* the pending next action after the resolver ran
SARSAPending(a) == <<a>>

TDFit ==
    /\ alg \in {"QLearning", "SARSA"}
    /\ calls < MaxCalls
    /\ \E n \in FitIterations :
         IF ~FitPrecondition(n)
         THEN /\ Abort(n, Earlier, "AssertionError", <<>>)
              /\ UNCHANGED <<Q, learning_rate, next_action, fits, touched>>
         ELSE \E dataset \in Datasets :
              LET t  == LastTransition(dataset)
                  sa == <<t.state, t.action>>
                  q_current == Predict(Q[0], sa)
                  drawn == alg = "SARSA" /\ ~t.absorbing
                  alpha == LearningRate(learning_rate[0], sa)
              IN  \E a \in (IF drawn THEN Actions ELSE {0}) :
                  \E nq \in {Bootstrap(t.absorbing,
                                IF alg = "SARSA"
                                THEN SARSANextQ(Q[0], t.next_state, a)
                                ELSE QLearningNextQ(Q[0], t.next_state))} :
                  \E target \in {Target(t.reward, gamma, nq.val)} :
                  \E q \in {TDUpdate(q_current, alpha, target)} :
                        /\ Q' = [Q EXCEPT ![0] = ApproxFit(@, sa, q)]
                        /\ learning_rate' =
                               [learning_rate EXCEPT ![0] = Advance(@, sa)]
                        /\ next_action' =
                               IF drawn THEN SARSAPending(nq.a_n)
                                        ELSE next_action
                        /\ fits' = [fits EXCEPT ![0] = @ + 1]
                        /\ touched' = [touched EXCEPT ![sa] = @ + 1]
                        /\ calls' = calls + 1
                        /\ last' = [n_fit |-> n, t |-> t, idx |-> 0,
                                    a_n |-> nq.a_n, q_current |-> q_current,
                                    q_next |-> nq.val, alpha |-> alpha,
                                    target |-> target, q |-> q,
                                    err |-> "none",
                                    trace |-> <<"predict">> \o nq.ev
                                              \o <<"learning_rate", "fit">>,
                                    max_idx |-> <<>>]
    /\ UNCHANGED <<alg, sampling, gamma, n_updates, sigma, Q2, weights_var,
                   coin>>

(* ------------------------- DoubleQLearning ----------------------------- *)
\* _, a_n = max_QA(next_state, False, self.approximator[approximator_idx], ...)
DoubleSelect(Qs, ns, idx) == MaxActions(Qs[idx], ns)

\* mutant: the selected model evaluates its own arg-max
DoubleEvaluateSelected(Qs, ns, idx, a_n) == Predict(Qs[idx], <<ns, a_n>>)

\* return self.approximator[1 - approximator_idx].predict(sa_n)
DoubleEvaluate(Qs, ns, idx, a_n) == Predict(Qs[1 - idx], <<ns, a_n>>)

\* DoubleQLearning._next_q; a_n is the action max_QA returns
DoubleNextQ(Qs, ns, idx, a_n) ==
    Resolved(DoubleEvaluate(Qs, ns, idx, a_n), <<"next_q">>, a_n, <<>>)

\* self.learning_rate[approximator_idx](sa): the value returned
DoubleLearningRate(schedules, idx, sa) == LearningRate(schedules[idx], sa)

\* mutant: one schedule object held twice, so a call advances both entries
DoubleAdvanceShared(schedules, idx, sa) ==
    [i \in DOMAIN schedules |-> Advance(schedules[i], sa)]

\* the schedules after self.learning_rate[approximator_idx](sa)
DoubleAdvance(schedules, idx, sa) ==
    [schedules EXCEPT ![idx] = Advance(@, sa)]

\* the ensemble after self.approximator[approximator_idx].fit(sa, q)
DoubleApproxFit(Qs, idx, sa, q) == [Qs EXCEPT ![idx] = ApproxFit(@, sa, q)]

DoubleQFit ==
    /\ alg = "DoubleQLearning"
    /\ calls < MaxCalls
    /\ \E n \in FitIterations :
         IF ~FitPrecondition(n)
         THEN /\ Abort(n, Earlier, "AssertionError", <<>>)
              /\ UNCHANGED <<Q, learning_rate, coin, fits, touched>>
         ELSE \E dataset \in Datasets, approximator_idx \in {0, 1} :
              LET t  == LastTransition(dataset)
                  sa == <<t.state, t.action>>
              IN  \E a_n \in (IF t.absorbing THEN {0}
                               ELSE DoubleSelect(Q, t.next_state,
                                                 approximator_idx)) :
                  \E q_current \in {Predict(Q[approximator_idx], sa)},
                     alpha \in {DoubleLearningRate(learning_rate,
                                                   approximator_idx, sa)},
                     nq \in {Bootstrap(t.absorbing,
                                DoubleNextQ(Q, t.next_state,
                                            approximator_idx, a_n))} :
                  \E target \in {Target(t.reward, gamma, nq.val)} :
                  \E q \in {TDUpdate(q_current, alpha, target)} :
                        /\ Q' = DoubleApproxFit(Q, approximator_idx, sa, q)
                        /\ learning_rate' =
                               DoubleAdvance(learning_rate, approximator_idx, sa)
                        /\ coin' = [coin EXCEPT ![approximator_idx] = @ + 1]
                        /\ fits' = [fits EXCEPT ![approximator_idx] = @ + 1]
                        /\ touched' = [touched EXCEPT ![sa] = @ + 1]
                        /\ calls' = calls + 1
                        /\ last' = [n_fit |-> n, t |-> t,
                                    idx |-> approximator_idx,
                                    a_n |-> nq.a_n, q_current |-> q_current,
                                    q_next |-> nq.val, alpha |-> alpha,
                                    target |-> target, q |-> q,
                                    err |-> "none",
                                    trace |-> <<"coin", "predict">> \o nq.ev
                                              \o <<"learning_rate", "fit">>,
                                    max_idx |-> <<>>]
    /\ UNCHANGED <<alg, sampling, gamma, next_action, n_updates, sigma, Q2,
                   weights_var>>

(* ------------------------ WeightedQLearning ---------------------------- *)
RECURSIVE Sorted(_)
Sorted(S) ==
    IF S = {} THEN <<>>
    ELSE LET m == CHOOSE x \in S : \A y \in S : x <= y
         IN  <<m>> \o Sorted(S \ {m})

\* mdp_info['action_space'].values
ActionValues == Sorted(Actions)

\* means[0, i] = self.approximator.predict(sa_n)
Means(table, ns) == [a \in Actions |-> Predict(table, <<ns, a>>)]

\* sigmas[0, i] = self._sigma[sa_n, a]: the stored deviation of (next_state, a)
Sigmas(sig, ns) == [a \in Actions |-> sig[<<ns, a>>]]

\* np.random.normal(mean, sigma): the mean itself when sigma is 0
SampleSet(mean, s) ==
    IF SigmaIsZero(s) THEN {mean} ELSE {RInt(v) : v \in NoiseVals}

\* the rows np.random.normal can return: one sample for each action
SampleRows(means, sigmas) ==
    {r \in [Actions -> UNION {SampleSet(means[a], sigmas[a]) : a \in Actions}] :
        \A a \in Actions : r[a] \in SampleSet(means[a], sigmas[a])}

\* np.argmax of one row: the first index holding the maximum
ArgMax(row) ==
    CHOOSE a \in Actions :
        /\ \A b \in Actions : RLeq(row[b], row[a])
        /\ \A b \in Actions : b < a => RLess(row[b], row[a])

\* max_idx = np.argmax(samples, axis=1) over the precision rows of samples,
\* each row drawn independently of the others
MaxIdxOutcomes(means, sigmas) ==
    [1..Precision -> {ArgMax(r) : r \in SampleRows(means, sigmas)}]

\* _, max_count = np.unique(max_idx, return_counts=True): one count for each
\* index that occurs in max_idx, in increasing order of the index
MaxCount(max_idx) ==
    LET u == Sorted({max_idx[r] : r \in DOMAIN max_idx})
    IN  [i \in 1..Len(u) |->
            Cardinality({r \in DOMAIN max_idx : max_idx[r] = u[i]})]

\* w = max_count / self.precision
Weights(max_idx) ==
    LET c == MaxCount(max_idx) IN [i \in 1..Len(c) |-> Rat(c[i], Precision)]

\* self.approximator.predict(sa) for sa = every action at next_state
PredictAll(table, ns) ==
    [i \in 1..Len(ActionValues) |-> Predict(table, <<ns, ActionValues[i]>>)]

\* np.dot(w, preds) of two vectors of the same length
Dot(w, preds) == RSum([i \in 1..Len(w) |-> RMul(w[i], preds[i])])

\* mutant: without sampling the plain maximum is returned instead of raising
WeightedNextQSilent(table, samp, ns, max_idx) ==
    IF ~samp THEN Resolved(MaxQ(table, ns), <<"next_q">>, 0, <<>>)
    ELSE IF Len(Weights(max_idx)) # Len(PredictAll(table, ns))
         THEN Raised("ValueError", <<"next_q">>, max_idx)
         ELSE Resolved(Dot(Weights(max_idx), PredictAll(table, ns)),
                       <<"next_q">>, 0, max_idx)

\* WeightedQLearning._next_q
WeightedNextQ(table, samp, ns, max_idx) ==
    LET w == Weights(max_idx)
        preds == PredictAll(table, ns)
    IN  IF ~samp THEN Raised("NotImplementedError", <<"next_q">>, <<>>)
        ELSE IF Len(w) # Len(preds)
             THEN Raised("ValueError", <<"next_q">>, max_idx)
             ELSE Resolved(Dot(w, preds), <<"next_q">>, 0, max_idx)

\* mutant: the difference is not clamped
ClipNothing(diff) == diff

\* diff = np.clip(diff, 0, np.inf)
Clip(diff) == IF RLess(diff, Zero) THEN Zero ELSE diff

\* self._Q2[sa] + alpha * target ** 2. - alpha * self._Q2[sa]
SecondMoment(q2, alpha, target) ==
    RSub(RAdd(q2, RMul(alpha, RSq(target))), RMul(alpha, q2))

\* (1 - alpha) ** 2. * self._weights_var[sa] + alpha ** 2.
WeightsVar(wv, alpha) ==
    RAdd(RMul(RSq(RSub(One, alpha)), wv), RSq(alpha))

\* mutant: diff * n instead of diff / n
SigmaOfTimesN(q2, q, wv) ==
    [e10 |-> 0, sq |-> RMul(Clip(RSub(q2, RSq(q))), RInv(wv))]

\* np.sqrt(diff / n) with n = 1. / weights_var: the radicand
SigmaOf(q2, q, wv) ==
    LET n == RInv(wv)
        diff == Clip(RSub(q2, RSq(q)))
    IN  [e10 |-> 0, sq |-> RDiv(diff, n)]

\* mutant: the deviation is computed from the first update on
EnoughUpdatesFirst(n) == n >= 1

\* if self._n_updates[sa] > 1
EnoughUpdates(n) == n > 1

\* the four arrays after the statements that follow approximator.fit
StatsUpdate(st, sa, alpha, target, q) ==
    LET n  == st.n_updates[sa] + 1
        q2 == SecondMoment(st.Q2[sa], alpha, target)
        wv == WeightsVar(st.weights_var[sa], alpha)
    IN  [n_updates   |-> [st.n_updates EXCEPT ![sa] = n],
         Q2          |-> [st.Q2 EXCEPT ![sa] = q2],
         weights_var |-> IF EnoughUpdates(n)
                         THEN [st.weights_var EXCEPT ![sa] = wv]
                         ELSE st.weights_var,
         sigma       |-> IF EnoughUpdates(n)
                         THEN [st.sigma EXCEPT ![sa] = SigmaOf(q2, q, wv)]
                         ELSE st.sigma]

Stats == [n_updates |-> n_updates, Q2 |-> Q2, weights_var |-> weights_var,
          sigma |-> sigma]

WeightedQFit ==
    /\ alg = "WeightedQLearning"
    /\ calls < MaxCalls
    /\ \E n \in FitIterations :
         IF ~FitPrecondition(n)
         THEN /\ Abort(n, Earlier, "AssertionError", <<>>)
              /\ UNCHANGED <<Q, learning_rate, fits, touched, n_updates,
                             sigma, Q2, weights_var>>
         ELSE \E dataset \in Datasets :
              LET t  == LastTransition(dataset)
                  sa == <<t.state, t.action>>
                  q_current == Predict(Q[0], sa)
                  drawn == ~t.absorbing /\ sampling
                  means == Means(Q[0], t.next_state)
                  sigmas == Sigmas(sigma, t.next_state)
              IN  \E max_idx \in (IF drawn THEN MaxIdxOutcomes(means, sigmas)
                                            ELSE {<<>>}) :
                  \E nq \in {Bootstrap(t.absorbing,
                                WeightedNextQ(Q[0], sampling,
                                              t.next_state, max_idx))} :
                        IF nq.err # "none"
                        THEN /\ last' = [NoCall EXCEPT
                                            !.n_fit = n, !.t = t,
                                            !.q_current = q_current,
                                            !.err = nq.err,
                                            !.trace = <<"predict">> \o nq.ev,
                                            !.max_idx = nq.max_idx]
                             /\ calls' = calls + 1
                             /\ UNCHANGED <<Q, learning_rate, fits, touched,
                                            n_updates, sigma, Q2, weights_var>>
                        ELSE \E alpha \in {LearningRate(learning_rate[0], sa)},
                                target \in {Target(t.reward, gamma, nq.val)} :
                             \E q \in {TDUpdate(q_current, alpha, target)} :
                             \E st \in {StatsUpdate(Stats, sa, alpha, target, q)} :
                                   /\ Q' = [Q EXCEPT ![0] = ApproxFit(@, sa, q)]
                                   /\ learning_rate' =
                                          [learning_rate EXCEPT
                                              ![0] = Advance(@, sa)]
                                   /\ n_updates' = st.n_updates
                                   /\ Q2' = st.Q2
                                   /\ weights_var' = st.weights_var
                                   /\ sigma' = st.sigma
                                   /\ fits' = [fits EXCEPT ![0] = @ + 1]
                                   /\ touched' = [touched EXCEPT ![sa] = @ + 1]
                                   /\ calls' = calls + 1
                                   /\ last' =
                                        [n_fit |-> n, t |-> t, idx |-> 0,
                                         a_n |-> 0, q_current |-> q_current,
                                         q_next |-> nq.val, alpha |-> alpha,
                                         target |-> target, q |-> q,
                                         err |-> "none",
                                         trace |-> <<"predict">> \o nq.ev \o
                                            <<"learning_rate", "fit", "stats">>,
                                         max_idx |-> nq.max_idx]
    /\ UNCHANGED <<alg, sampling, gamma, next_action, coin>>

Next == TDFit \/ DoubleQFit \/ WeightedQFit

Spec == Init /\ [][Next]_vars

\* one class of agent at a time
InitTD == Init /\ alg \in {"QLearning", "SARSA"}

SpecTD == InitTD /\ [][TDFit]_vars

InitDouble == Init /\ alg = "DoubleQLearning"

SpecDouble == InitDouble /\ [][DoubleQFit]_vars

InitWeighted == Init /\ alg = "WeightedQLearning"

SpecWeighted == InitWeighted /\ [][WeightedQFit]_vars

(* ------------------------------ claims --------------------------------- *)
\* a step that is one call of fit
FitCalled == calls' = calls + 1

\* the key of the last transition of the most recent call
LastKey(l) == <<l.t.state, l.t.action>>

Occurrences(e, seq) == Cardinality({i \in DOMAIN seq : seq[i] = e})

RECURSIVE Total(_, _)
Total(f, S) ==
    IF S = {} THEN 0
    ELSE LET x == CHOOSE y \in S : TRUE IN f[x] + Total(f, S \ {x})

\* the state of the agent a failed call must leave alone
AgentState == <<Q, learning_rate, next_action, n_updates, sigma, Q2,
                weights_var, coin, fits, touched>>

\* C1: for every agent, fit with n_fit_iterations # 1 fails at once: the
\* call does nothing (no predict, no fit, no schedule call, no coin) and
\* the approximator, the schedules and the four statistics arrays are
\* unchanged.
C1_FailFast ==
    [][(FitCalled /\ last'.n_fit # 1) =>
          /\ last'.err = "AssertionError"
          /\ last'.trace = <<>>
          /\ UNCHANGED AgentState]_vars

C1_Witness ==
    /\ alg = "WeightedQLearning"
    /\ last.n_fit = 2
    /\ last.err = "AssertionError"
    /\ \E k \in Keys : n_updates[k] = 2 /\ sigma[k] # SigmaInit

\* C2: for every agent, an absorbing last transition makes fit use
\* q_next = 0 without calling _next_q, so the value fitted at (state, action)
\* is q_current + alpha * (reward - q_current), whatever gamma and the
\* approximator's values at next_state are; it is alpha * reward when
\* q_current is 0.
C2_Absorbing ==
    [][(FitCalled /\ last'.n_fit = 1 /\ last'.t.absorbing) =>
          LET sa == LastKey(last')
              q_current == Q[last'.idx][sa]
              expected == RAdd(q_current,
                               RMul(last'.alpha,
                                    RSub(RInt(last'.t.reward), q_current)))
          IN  /\ last'.err = "none"
              /\ Occurrences("next_q", last'.trace) = 0
              /\ last'.q_next = Zero
              /\ last'.q = expected
              /\ Q'[last'.idx][sa] = expected
              /\ q_current = Zero =>
                     last'.q = RMul(last'.alpha, RInt(last'.t.reward))]_vars

C2_Witness ==
    /\ calls > 0
    /\ last.n_fit = 1
    /\ last.t.absorbing
    /\ last.t.reward = 1
    /\ gamma = One
    /\ last.q_current = Zero
    /\ Q[last.idx][LastKey(last)] = Half
    /\ \E a \in Actions : Q[last.idx][<<last.t.next_state, a>>] = One

\* C3: in DoubleQLearning, for each model i the approximator fits applied
\* to model i and the calls of schedule i both equal the coin draws that
\* selected i, and one fit call leaves the other model's values and the
\* other model's schedule unchanged.
C3_Routing ==
    [][FitCalled =>
          /\ \A i \in {0, 1} :
                /\ fits'[i] = coin'[i]
                /\ Total(learning_rate'[i], Keys) = coin'[i]
          /\ last'.n_fit = 1 =>
                LET i == last'.idx
                    o == 1 - last'.idx
                IN  /\ coin'[i] = coin[i] + 1
                    /\ coin'[o] = coin[o]
                    /\ Q'[o] = Q[o]
                    /\ learning_rate'[o] = learning_rate[o]
                    /\ learning_rate'[i] # learning_rate[i]]_vars

C3_Witness ==
    /\ alg = "DoubleQLearning"
    /\ calls = MaxCalls
    /\ coin[0] >= 1
    /\ coin[1] >= 1
    /\ Q[0] # Q[1]

\* C4: in DoubleQLearning, for a non-absorbing transition with selected
\* model i, q_next is model (1 - i)'s prediction at (next_state, a*), a* an
\* action maximizing model i's prediction at next_state; it is model i's own
\* maximum only when the two models agree at (next_state, a*).
C4_CrossEvaluation ==
    [][(FitCalled /\ last'.n_fit = 1 /\ ~last'.t.absorbing) =>
          LET i  == last'.idx
              sn == <<last'.t.next_state, last'.a_n>>
          IN  /\ \A b \in Actions :
                    RLeq(Q[i][<<last'.t.next_state, b>>], Q[i][sn])
              /\ last'.q_next = Q[1 - i][sn]
              /\ last'.q_next = Q[i][sn] => Q[0][sn] = Q[1][sn]]_vars

\* the selected action is not the updated one, so the values at
\* (next_state, a*) are those the call read
C4_Witness ==
    /\ alg = "DoubleQLearning"
    /\ calls > 0
    /\ last.n_fit = 1
    /\ ~last.t.absorbing
    /\ last.t.action # last.a_n
    /\ LET sn == <<last.t.next_state, last.a_n>>
       IN  /\ Q[0][sn] # Q[1][sn]
           /\ last.q_next = Q[1 - last.idx][sn]

\* the weight of action a over the rows of max_idx
CountWeight(max_idx, a) ==
    Rat(Cardinality({r \in DOMAIN max_idx : max_idx[r] = a}), Precision)

\* the sum over all legal actions a of w_a * predict([next_state, a])
WeightedSum(table, ns, max_idx) ==
    RSum([i \in 1..Len(ActionValues) |->
             RMul(CountWeight(max_idx, ActionValues[i]),
                  table[<<ns, ActionValues[i]>>])])

\* C5: in WeightedQLearning._next_q with sampling enabled, for every sample
\* matrix and every legal action a, also one no row has as its arg-max, the
\* weight is w_a = count(arg-max = a) / precision and the value returned is
\* the sum over all legal actions of w_a * predict([next_state, a]).
C5_WeightedSum ==
    [][(FitCalled /\ sampling /\ last'.n_fit = 1 /\ ~last'.t.absorbing) =>
          /\ last'.err = "none"
          /\ last'.q_next =
                 WeightedSum(Q[0], last'.t.next_state, last'.max_idx)]_vars

\* C6: in WeightedQLearning, n_updates[k] is the number of completed fit
\* calls whose last transition has key k, and sigma[k] still holds its
\* initial 1e10 while n_updates[k] <= 1.
C6_Counts ==
    \A k \in Keys :
        /\ n_updates[k] = touched[k]
        /\ n_updates[k] <= 1 => sigma[k] = SigmaInit

C6_Witness ==
    \E k \in Keys, j \in Keys :
        /\ n_updates[k] = 2
        /\ sigma[k] # SigmaInit
        /\ n_updates[j] = 1
        /\ sigma[j] = SigmaInit

\* C7: in WeightedQLearning.fit, Q2[k] := Q2[k] + alpha*target^2 -
\* alpha*Q2[k]; when the update brings n_updates[k] above 1, weights_var[k]
\* := (1-alpha)^2 * weights_var[k] + alpha^2 and sigma[k]^2 := max(0, Q2[k] -
\* q_new^2) * weights_var[k], so sigma[k] is 0 when Q2[k] < q_new^2 and is
\* never negative; the first update to k changes n_updates and Q2 only.
C7_Recurrences ==
    [][(FitCalled /\ last'.n_fit = 1 /\ last'.err = "none") =>
          LET k  == LastKey(last')
              a  == last'.alpha
              q2 == RSub(RAdd(Q2[k], RMul(a, RSq(last'.target))),
                         RMul(a, Q2[k]))
              wv == RAdd(RMul(RSq(RSub(One, a)), weights_var[k]), RSq(a))
              d  == RSub(q2, RSq(last'.q))
          IN  /\ n_updates'[k] = n_updates[k] + 1
              /\ Q2'[k] = q2
              /\ IF n_updates'[k] > 1
                 THEN /\ weights_var'[k] = wv
                      /\ sigma'[k].e10 = 0
                      /\ sigma'[k].sq = IF RLess(d, Zero) THEN Zero
                                                          ELSE RMul(d, wv)
                 ELSE /\ weights_var'[k] = Zero
                      /\ weights_var[k] = Zero
                      /\ sigma'[k] = sigma[k]
              /\ \A j \in Keys : sigma'[j].sq.num >= 0]_vars

\* the second moment fell below the square of the fitted value
C7_Witness ==
    /\ alg = "WeightedQLearning"
    /\ last.err = "none"
    /\ calls > 0
    /\ LET k == LastKey(last)
       IN  /\ n_updates[k] = 3
           /\ RLess(Q2[k], RSq(last.q))
           /\ SigmaIsZero(sigma[k])
           /\ weights_var[k] = Rat(5, 16)

FitOrder(absorbing) ==
    <<"predict">> \o (IF absorbing THEN <<>> ELSE <<"next_q">>)
        \o <<"learning_rate", "fit", "stats">>

IsPrefix(s, t) == Len(s) <= Len(t) /\ s = SubSeq(t, 1, Len(s))

====
